---------------------------- MODULE Spec2Model ----------------------------
(***************************************************************************)
(* Model of reVeal/load.py: downscale_total, the multi-year load           *)
(* downscaling loop (weighted sampling, greedy fill, median, calibration,  *)
(* commit).                                                                *)
(*                                                                         *)
(* Numbers.  The program computes in IEEE doubles held in pandas columns.  *)
(* A value is modelled as a pair <<n, d>>: the exact rational n/d in       *)
(* lowest terms with d > 0, or one of the three non-finite doubles,        *)
(* <<0, 0>> (NaN), <<1, 0>> (+inf), <<-1, 0>> (-inf).  Rounding of finite  *)
(* results is not modelled; NaN and infinities, which pandas produces on   *)
(* division by zero and skips in its reductions, are.                      *)
(***************************************************************************)
EXTENDS Integers, Sequences, FiniteSets, TLC

(* ------------------------------ bounds -------------------------------- *)
\* number of rows (sites) of grid_df
MaxSites == 2
\* trials per year; stands for n_iters, which the code fixes at 10_000
MaxIters == 2
\* largest number of rows of load_df
MaxRows == 3

Sites == 1..MaxSites
\* values of the priority column (negative, zero, positive)
Priorities == {-1, 0, 2}
\* values of the developable_capacity_mw column
Capacities == {0, 1, 3}
\* values of the baseline load column
BaselineLoads == {1}
\* values of the load year column
Years == {1, 2}
\* values of the load value column
Targets == {0, 2}
\* values of the baseline_year argument
BaselineYears == {1}

(* --------------------------- float arithmetic ------------------------- *)
NaN == <<0, 0>>
PosInf == <<1, 0>>
NegInf == <<-1, 0>>
Zero == <<0, 1>>

Abs(n) == IF n < 0 THEN -n ELSE n
Sign(n) == IF n < 0 THEN -1 ELSE IF n > 0 THEN 1 ELSE 0

RECURSIVE GCD(_, _)
GCD(a, b) == IF b = 0 THEN a ELSE GCD(b, a % b)

\* n/d as a value: lowest terms, positive denominator; x/0 is +-inf, 0/0 NaN
Norm(n, d) ==
    IF d = 0 THEN <<Sign(n), 0>>
    ELSE LET g == GCD(Abs(n), Abs(d))
             s == Sign(d)
         IN  <<(s * n) \div g, (s * d) \div g>>

Float(i) == <<i, 1>>
IsNaN(x) == x = NaN
IsFinite(x) == x[2] # 0

FAdd(a, b) ==
    IF IsFinite(a) \/ IsFinite(b)
    THEN Norm(a[1] * b[2] + b[1] * a[2], a[2] * b[2])
    ELSE IF a = b THEN a ELSE NaN
FNeg(a) == <<-a[1], a[2]>>
FSub(a, b) == FAdd(a, FNeg(b))
FMul(a, b) == Norm(a[1] * b[1], a[2] * b[2])
FDiv(a, b) == Norm(a[1] * b[2], a[2] * b[1])
\* a < b; every comparison with NaN is false
FLess(a, b) ==
    IF IsNaN(a) \/ IsNaN(b) THEN FALSE
    ELSE IF IsFinite(a) \/ IsFinite(b) THEN a[1] * b[2] < b[1] * a[2]
    ELSE a = NegInf /\ b = PosInf
FLeq(a, b) == ~IsNaN(a) /\ ~IsNaN(b) /\ (a = b \/ FLess(a, b))
FAbs(a) == <<Abs(a[1]), a[2]>>
FMax(a, b) == IF FLess(a, b) THEN b ELSE a

\* 1 / rel_tol of math.isclose (rel_tol = 1e-09, abs_tol = 0.0)
RelTolInv == 1000000000

\* math.isclose(a, b): a == b, or both finite and
\* |a - b| <= rel_tol * max(|a|, |b|)
isclose(a, b) ==
    IF a = b THEN ~IsNaN(a)
    ELSE IF ~IsFinite(a) \/ ~IsFinite(b) THEN FALSE
    ELSE LET diff == FAbs(FSub(a, b))
             big == FMax(FAbs(a), FAbs(b))
         IN  (big[1] * diff[2]) \div (diff[1] * big[2]) >= RelTolInv

(* ------------------------- sequences of floats ------------------------ *)
RECURSIVE SumSkipNa(_)
\* Series.sum() with skipna=True: NaN entries count as 0
SumSkipNa(s) ==
    IF s = <<>> THEN Zero
    ELSE LET h == IF IsNaN(Head(s)) THEN Zero ELSE Head(s)
         IN  FAdd(h, SumSkipNa(Tail(s)))

\* Series.cumsum() with skipna=True: NaN stays NaN and is left out of the
\* running sum
CumSum(s) ==
    [i \in 1..Len(s) |->
        IF IsNaN(s[i]) THEN NaN ELSE SumSkipNa(SubSeq(s, 1, i))]

\* np.argmax of a boolean series, as a 1-based position: the first True,
\* or the first position when none is True
ArgMax(b) ==
    IF \E i \in 1..Len(b) : b[i]
    THEN CHOOSE i \in 1..Len(b) : b[i] /\ \A j \in 1..(i - 1) : ~b[j]
    ELSE 1

DropNa(s) == SelectSeq(s, LAMBDA x : ~IsNaN(x))

RECURSIVE SortFloats(_)
SortFloats(s) ==
    IF s = <<>> THEN <<>>
    ELSE LET m == CHOOSE i \in 1..Len(s) : \A j \in 1..Len(s) : FLeq(s[i], s[j])
         IN  <<s[m]>> \o SortFloats(SubSeq(s, 1, m - 1) \o SubSeq(s, m + 1, Len(s)))

\* Series.median() with skipna=True: the middle value, or the mean of the
\* two middle values; NaN when nothing is left
Median(s) ==
    LET v == SortFloats(DropNa(s))
        n == Len(v)
    IN  IF n = 0 THEN NaN
        ELSE IF n % 2 = 1 THEN v[(n + 1) \div 2]
        ELSE FDiv(FAdd(v[n \div 2], v[n \div 2 + 1]), Float(2))

(* ------------------------------- state -------------------------------- *)
VARIABLES
    grid_df,            \* input rows: site -> [priority, baseline_load, developable_capacity_mw]
    baseline_year,      \* input
    load_df,            \* input rows, in order: <<[year, value], ...>>
    n_nonzero,          \* number of rows with priority > 0
    random_seed,        \* seed given to the next sample
    grid_year_df,       \* working rows: site -> [weights, total_load, new_load, developable_capacity]
    year,               \* the "year" column of grid_year_df
    grid_years,         \* snapshots appended so far: <<[year, rows], ...>>
    groups,             \* groups of load_df the year loop has still to visit
    load_projected_in_year,
    simulations,        \* deployed_df of each trial of the current year
    commits,            \* history: what each completed year committed
    seeds_used,         \* history: the random_state of each completed trial of the run
    load_df_supplied,   \* apportion_load_to_regions, history: load_df as the caller supplied it
    region_weights,     \* apportion_load_to_regions: the dict, as <<[region, weight], ...>> in key order
    in_geom_types,      \* get_geom_type_parquet: the "geometry_types" list of the file
    pc,                 \* "start", "loop", "trials", "returned", "raised"
    error,              \* message of the ValueError raised, "" when none
    result              \* returned table: <<[idx, year, total_load, new_load, developable_capacity], ...>>

vars == <<grid_df, baseline_year, load_df, n_nonzero, random_seed, grid_year_df,
          year, grid_years, groups, load_projected_in_year, simulations,
          commits, seeds_used, load_df_supplied, region_weights, in_geom_types,
          pc, error, result>>

(* --------------------------- program constants ------------------------ *)
site_saturation == 1
priority_power == 3
n_iters == MaxIters

RECURSIVE Pow(_, _)
Pow(b, e) == IF e = 0 THEN 1 ELSE b * Pow(b, e - 1)

(* ------------------------------ load table ---------------------------- *)
RECURSIVE SortByYear(_)
\* load_df.sort_values(by=[load_year_col], ascending=True)
SortByYear(df) ==
    IF df = <<>> THEN <<>>
    ELSE LET m == CHOOSE i \in 1..Len(df) :
                    /\ \A j \in 1..Len(df) : df[i].year <= df[j].year
                    /\ \A j \in 1..(i - 1) : df[j].year # df[i].year
         IN  <<df[m]>> \o SortByYear(SubSeq(df, 1, m - 1) \o SubSeq(df, m + 1, Len(df)))

RECURSIVE GroupByYearDescending(_)
\* a grouping that hands out the latest year first
GroupByYearDescending(df) ==
    IF df = <<>> THEN <<>>
    ELSE LET y == CHOOSE v \in {df[i].year : i \in 1..Len(df)} :
                    \A i \in 1..Len(df) : v >= df[i].year
         IN  <<[year |-> y, year_df |-> SelectSeq(df, LAMBDA r : r.year = y)]>>
                 \o GroupByYearDescending(SelectSeq(df, LAMBDA r : r.year # y))

RECURSIVE GroupByYear(_)
\* load_df.groupby(by=[load_year_col]): one group per distinct year, in
\* ascending order of the year, each holding that year's rows
GroupByYear(df) ==
    IF df = <<>> THEN <<>>
    ELSE LET y == CHOOSE v \in {df[i].year : i \in 1..Len(df)} :
                    \A i \in 1..Len(df) : v <= df[i].year
         IN  <<[year |-> y, year_df |-> SelectSeq(df, LAMBDA r : r.year = y)]>>
                 \o GroupByYear(SelectSeq(df, LAMBDA r : r.year # y))

\* a duplicate check that is off by one: two records pass
MultipleRecordsOffByOne(year_df) == Len(year_df) > 2

\* len(year_df) > 1: the year has more than one record
MultipleRecords(year_df) == Len(year_df) > 1

(* ------------------------------- sampling ----------------------------- *)
\* DataFrame.sample(weights=...) raises ValueError on a negative weight and
\* on weights that sum to zero
SampleRaises(df) ==
    \/ \E s \in Sites : df[s].weights < 0
    \/ \A s \in Sites : df[s].weights = 0

\* a sampler that ignores the weights: any n distinct rows
SampleOrdersUnweighted(df, n) ==
    {o \in [1..n -> Sites] : \A i, j \in 1..n : i # j => o[i] # o[j]}

\* the orderings sample(n, replace=False, weights=...) can return: n distinct
\* rows, none of weight zero
SampleOrders(df, n) ==
    {o \in [1..n -> {s \in Sites : df[s].weights > 0}] :
        \A i, j \in 1..n : i # j => o[i] # o[j]}

(* ---------------------------- greedy allocator ------------------------ *)
\* position (1-based) of the last deployed row of a shuffled frame
LastDeployedIdx(dev, target) ==
    LET cumulative_developable == CumSum(dev)
        cumulative_exceeds_total ==
            [i \in 1..Len(dev) |-> FLess(target, cumulative_developable[i])]
    IN  ArgMax(cumulative_exceeds_total)

\* a deployed_df whose rows before k keep the 0.0 of line 118 (the write of
\* lines 129-131 lost), row k given the whole target
DeployedDfFillLost(order, df, target) ==
    LET dev == [i \in 1..Len(order) |-> df[order[i]].developable_capacity]
        k == LastDeployedIdx(dev, target)
    IN  [i \in 1..k |->
            [idx |-> order[i],
             new_capacity |-> IF i < k THEN Zero ELSE target]]

\* deployed_df of one trial: rows 1..k of the shuffled frame, the rows before
\* k filled to their capacity, row k given the remainder of the target
DeployedDf(order, df, target) ==
    LET dev == [i \in 1..Len(order) |-> df[order[i]].developable_capacity]
        k == LastDeployedIdx(dev, target)
        filled == [i \in 1..k |-> IF i < k THEN dev[i] ELSE Zero]
        total_from_filled_sites == SumSkipNa(filled)
        remaining_capacity == FSub(target, total_from_filled_sites)
    IN  [i \in 1..k |->
            [idx |-> order[i],
             new_capacity |-> IF i < k THEN dev[i] ELSE remaining_capacity]]

NewCapacities(deployed_df) ==
    [i \in 1..Len(deployed_df) |-> deployed_df[i].new_capacity]

(* ---------------------------- trial aggregator ----------------------- *)
RECURSIVE Concat(_)
\* pd.concat(simulations, ignore_index=True)
Concat(frames) ==
    IF frames = <<>> THEN <<>> ELSE Head(frames) \o Concat(Tail(frames))

RECURSIVE SeqOfSet(_)
\* the elements of a set of sites in ascending order (a sorted index)
SeqOfSet(S) ==
    IF S = {} THEN <<>>
    ELSE LET m == CHOOSE x \in S : \A y \in S : x <= y
         IN  <<m>> \o SeqOfSet(S \ {m})

ColumnOf(f) == LET ix == SeqOfSet(DOMAIN f) IN [i \in 1..Len(ix) |-> f[ix[i]]]

\* simulations_df.groupby(by=[grid_idx])[["_new_capacity"]].median(): one row
\* per site that occurs in simulations_df, the median of that site's rows
MeansDf(simulations_df) ==
    LET rows(s) == SelectSeq(simulations_df, LAMBDA r : r.idx = s)
        values(s) == [i \in 1..Len(rows(s)) |-> rows(s)[i].new_capacity]
    IN  [s \in {simulations_df[i].idx : i \in 1..Len(simulations_df)} |->
            Median(values(s))]

\* the _new_calibrated_capacity column of means_df
NewCalibratedCapacity(means_df, target) ==
    LET total == SumSkipNa(ColumnOf(means_df))
        proportion == [s \in DOMAIN means_df |-> FDiv(means_df[s], total)]
    IN  [s \in DOMAIN means_df |-> FMul(proportion[s], target)]

\* a new load column filled by position: the calibrated values written to the
\* first rows of the grid, whatever their index
NewLoadColumnPositional(df, calibrated) ==
    LET ix == SeqOfSet(DOMAIN calibrated)
    IN  [s \in Sites |->
            IF s <= Len(ix) THEN calibrated[ix[s]] ELSE df[s].new_load]

\* lines 159-161: the new load column with the calibrated values written to
\* the rows of means_df; the other rows keep what they held
NewLoadColumn(df, calibrated) ==
    [s \in Sites |->
        IF s \in DOMAIN calibrated THEN calibrated[s] ELSE df[s].new_load]

\* lines 162-164: the new load is added to the total load and taken off the
\* developable capacity, then reset to 0.0
CommitYear(df, calibrated) ==
    LET new_load == NewLoadColumn(df, calibrated)
    IN  [s \in Sites |->
            [df[s] EXCEPT
                !.total_load = FAdd(df[s].total_load, new_load[s]),
                !.developable_capacity = FSub(df[s].developable_capacity, new_load[s]),
                !.new_load = Zero]]

Snapshot(df, y) ==
    [year |-> y,
     rows |-> [s \in Sites |->
                 [total_load |-> df[s].total_load,
                  new_load |-> df[s].new_load,
                  developable_capacity |-> df[s].developable_capacity]]]

\* pd.concat(grid_years, ignore_index=True).set_index([grid_idx, "year"])
GridProjectionsDf(snapshots) ==
    Concat([j \in 1..Len(snapshots) |->
              [i \in 1..MaxSites |->
                  [idx |-> i,
                   year |-> snapshots[j].year,
                   total_load |-> snapshots[j].rows[i].total_load,
                   new_load |-> snapshots[j].rows[i].new_load,
                   developable_capacity |-> snapshots[j].rows[i].developable_capacity]]])

(* ------------------------------- actions ------------------------------ *)
LoadTables ==
    UNION {[1..n -> [year : Years, value : Targets]] : n \in 0..MaxRows}

Init ==
    /\ grid_df \in [Sites -> [priority : Priorities,
                              baseline_load : BaselineLoads,
                              developable_capacity_mw : Capacities]]
    /\ baseline_year \in BaselineYears
    /\ load_df \in LoadTables
    /\ n_nonzero = 0
    /\ random_seed = 0
    /\ grid_year_df = [s \in Sites |->
                         [weights |-> 0, total_load |-> Zero, new_load |-> Zero,
                          developable_capacity |-> Zero]]
    /\ year = 0
    /\ grid_years = <<>>
    /\ groups = <<>>
    /\ load_projected_in_year = Zero
    /\ simulations = <<>>
    /\ commits = <<>>
    /\ seeds_used = <<>>
    /\ load_df_supplied = <<>>
    /\ region_weights = <<>>
    /\ in_geom_types = <<>>
    /\ pc = "start"
    /\ error = ""
    /\ result = <<>>

Raise(msg) ==
    /\ pc' = "raised"
    /\ error' = msg

\* rows that take the existing load off the capacity (what the note of
\* lines 89-90 warns against)
InitialRowsLessExistingLoad(grid) ==
    [s \in Sites |->
        [weights |-> Pow(grid[s].priority, priority_power),
         total_load |-> Float(grid[s].baseline_load),
         new_load |-> Zero,
         developable_capacity |->
             Float(grid[s].developable_capacity_mw * site_saturation
                     - grid[s].baseline_load)]]

\* lines 86-91: the columns added to the grid
InitialRows(grid) ==
    [s \in Sites |->
        [weights |-> Pow(grid[s].priority, priority_power),
         total_load |-> Float(grid[s].baseline_load),
         new_load |-> Zero,
         developable_capacity |->
             Float(grid[s].developable_capacity_mw * site_saturation)]]

\* a seed that is not advanced
NextSeedStuck(seed) == seed

\* line 144: random_seed += 1
NextSeed(seed) == seed + 1

\* lines 78-100: the derived columns, the baseline snapshot, the sorted load
\* table
Setup ==
    /\ pc = "start"
    /\ UNCHANGED <<region_weights, in_geom_types>>
    /\ n_nonzero' = Cardinality({s \in Sites : grid_df[s].priority > 0})
    /\ random_seed' = 0
    /\ grid_year_df' = InitialRows(grid_df)
    /\ year' = baseline_year
    /\ grid_years' = <<Snapshot(grid_year_df', baseline_year)>>
    /\ load_df' = SortByYear(load_df)
    /\ groups' = GroupByYear(load_df')
    /\ pc' = "loop"
    /\ UNCHANGED <<grid_df, baseline_year, load_projected_in_year, simulations,
                   commits, seeds_used, load_df_supplied, error, result>>

\* lines 101-108: the next year of the load table
BeginYear ==
    /\ pc = "loop"
    /\ UNCHANGED <<region_weights, in_geom_types>>
    /\ groups # <<>>
    /\ year' = Head(groups).year
    /\ groups' = Tail(groups)
    /\ simulations' = <<>>
    /\ IF MultipleRecords(Head(groups).year_df)
       THEN /\ Raise("Multiple records for load projections year")
            /\ UNCHANGED load_projected_in_year
       ELSE /\ load_projected_in_year' = Float(Head(groups).year_df[1].value)
            /\ pc' = "trials"
            /\ UNCHANGED error
    /\ UNCHANGED <<grid_df, baseline_year, load_df, n_nonzero, random_seed,
                   grid_year_df, grid_years, commits, seeds_used,
                   load_df_supplied, result>>

\* a trial that takes what it deploys off the capacities of the grid itself
TrialWritesBack ==
    /\ pc = "trials"
    /\ UNCHANGED <<region_weights, in_geom_types>>
    /\ Len(simulations) < n_iters
    /\ ~SampleRaises(grid_year_df)
    /\ \E order \in SampleOrders(grid_year_df, n_nonzero) :
          LET deployed_df == DeployedDf(order, grid_year_df, load_projected_in_year)
              taken(s) ==
                  SumSkipNa(NewCapacities(SelectSeq(deployed_df, LAMBDA r : r.idx = s)))
          IN  /\ simulations' = Append(simulations, deployed_df)
              /\ seeds_used' = Append(seeds_used, random_seed)
              /\ random_seed' = NextSeed(random_seed)
              /\ grid_year_df' =
                    [s \in Sites |->
                        [grid_year_df[s] EXCEPT
                            !.developable_capacity = FSub(@, taken(s))]]
    /\ UNCHANGED <<grid_df, baseline_year, load_df, n_nonzero, year,
                   grid_years, groups, load_projected_in_year, commits,
                   load_df_supplied, pc, error, result>>

\* lines 110-144: one trial
Trial ==
    /\ pc = "trials"
    /\ UNCHANGED <<region_weights, in_geom_types>>
    /\ Len(simulations) < n_iters
    /\ IF SampleRaises(grid_year_df)
       THEN /\ Raise("sample: invalid weights")
            /\ UNCHANGED <<simulations, random_seed, seeds_used>>
       ELSE \E order \in SampleOrders(grid_year_df, n_nonzero) :
              LET deployed_df == DeployedDf(order, grid_year_df, load_projected_in_year)
                  total_deployed == SumSkipNa(NewCapacities(deployed_df))
              IN  IF ~isclose(total_deployed, load_projected_in_year)
                  THEN /\ Raise("Deployed total is not equal to projected total")
                       /\ UNCHANGED <<simulations, random_seed, seeds_used>>
                  ELSE /\ simulations' = Append(simulations, deployed_df)
                       /\ seeds_used' = Append(seeds_used, random_seed)
                       /\ random_seed' = NextSeed(random_seed)
                       /\ UNCHANGED <<pc, error>>
    /\ UNCHANGED <<grid_df, baseline_year, load_df, n_nonzero, grid_year_df, year,
                   grid_years, groups, load_projected_in_year, commits,
                   load_df_supplied, result>>

\* lines 146-167: median, calibration, update of the rows, snapshot
Aggregate ==
    /\ pc = "trials"
    /\ UNCHANGED <<region_weights, in_geom_types>>
    /\ Len(simulations) = n_iters
    /\ LET means_df == MeansDf(Concat(simulations))
           calibrated == NewCalibratedCapacity(means_df, load_projected_in_year)
           total_calibrated_deployed == SumSkipNa(ColumnOf(calibrated))
       IN  IF ~isclose(total_calibrated_deployed, load_projected_in_year)
           THEN /\ Raise("Deployed total is not equal to projected total")
                /\ UNCHANGED <<grid_year_df, grid_years, commits>>
           ELSE /\ grid_year_df' = CommitYear(grid_year_df, calibrated)
                /\ grid_years' = Append(grid_years, Snapshot(grid_year_df', year))
                /\ commits' = Append(commits,
                       [year |-> year,
                        target |-> load_projected_in_year,
                        means |-> means_df,
                        new_load |-> NewLoadColumn(grid_year_df, calibrated)])
                /\ pc' = "loop"
                /\ UNCHANGED error
    /\ UNCHANGED <<grid_df, baseline_year, load_df, n_nonzero, random_seed, year,
                   groups, load_projected_in_year, simulations, seeds_used,
                   load_df_supplied, result>>

\* a return that also hands the snapshots gathered so far to the caller of a
\* run that raised
ReturnPartial ==
    /\ UNCHANGED <<region_weights, in_geom_types>>
    /\ \/ pc = "loop" /\ groups = <<>> /\ pc' = "returned"
       \/ pc = "raised" /\ result = <<>> /\ pc' = "raised"
    /\ result' = GridProjectionsDf(grid_years)
    /\ UNCHANGED <<grid_df, baseline_year, load_df, n_nonzero, random_seed,
                   grid_year_df, year, grid_years, groups, load_projected_in_year,
                   simulations, commits, seeds_used, load_df_supplied, error>>

\* lines 169-172: the loop is over, the snapshots are returned as one table
Return ==
    /\ pc = "loop"
    /\ UNCHANGED <<region_weights, in_geom_types>>
    /\ groups = <<>>
    /\ result' = GridProjectionsDf(grid_years)
    /\ pc' = "returned"
    /\ UNCHANGED <<grid_df, baseline_year, load_df, n_nonzero, random_seed,
                   grid_year_df, year, grid_years, groups, load_projected_in_year,
                   simulations, commits, seeds_used, load_df_supplied, error>>

Next == Setup \/ BeginYear \/ Trial \/ Aggregate \/ Return

Spec == Init /\ [][Next]_vars

(* ------------- downscale_total, load table with its index ------------- *)
\* The same run, with the index of load_df kept: a row carries the label it
\* had in the supplied table (a RangeIndex: its position, from 1), which the
\* in-place sort of line 100 moves along with the row.
SuppliedPriorities == {0, 2}
SuppliedCapacities == {1, 3}

IndexedLoadTables ==
    {[i \in 1..Len(t) |-> [idx |-> i, year |-> t[i].year, value |-> t[i].value]]
        : t \in LoadTables}

InitSupplied ==
    /\ grid_df \in [Sites -> [priority : SuppliedPriorities,
                              baseline_load : BaselineLoads,
                              developable_capacity_mw : SuppliedCapacities]]
    /\ baseline_year \in BaselineYears
    /\ load_df \in IndexedLoadTables
    /\ n_nonzero = 0
    /\ random_seed = 0
    /\ grid_year_df = [s \in Sites |->
                         [weights |-> 0, total_load |-> Zero, new_load |-> Zero,
                          developable_capacity |-> Zero]]
    /\ year = 0
    /\ grid_years = <<>>
    /\ groups = <<>>
    /\ load_projected_in_year = Zero
    /\ simulations = <<>>
    /\ commits = <<>>
    /\ seeds_used = <<>>
    /\ load_df_supplied = <<>>
    /\ region_weights = <<>>
    /\ in_geom_types = <<>>
    /\ pc = "start"
    /\ error = ""
    /\ result = <<>>

SpecSupplied == InitSupplied /\ [][Next]_vars

\* the variables of downscale_total, at rest while another function runs
DownscaleIdle ==
    /\ grid_df = <<>>
    /\ baseline_year = 0
    /\ n_nonzero = 0
    /\ random_seed = 0
    /\ grid_year_df = <<>>
    /\ year = 0
    /\ grid_years = <<>>
    /\ groups = <<>>
    /\ load_projected_in_year = Zero
    /\ simulations = <<>>
    /\ commits = <<>>
    /\ seeds_used = <<>>

(* ---------------------- apportion_load_to_regions --------------------- *)
\* largest number of keys of region_weights
MaxRegions == 2
\* largest number of rows of the load table handed to the function
MaxLoadRows == 2

Regions == {"north", "south", "east"}
\* values of region_weights, in quarters: -1/2, 0, 1/4, 1/2, 1, 3/2
WeightQuarters == {-2, 0, 1, 2, 4, 6}
Weights == {Norm(q, 4) : q \in WeightQuarters}

\* a dict: its keys are distinct, its items keep their insertion order
RegionWeightDicts ==
    UNION {{w \in [1..n -> [region : Regions, weight : Weights]] :
               \A i, j \in 1..n : i # j => w[i].region # w[j].region}
           : n \in 0..MaxRegions}

ApportionLoadTables ==
    UNION {[1..n -> [year : Years, value : Targets]] : n \in 0..MaxLoadRows}

RECURSIVE NpSum(_)
\* numpy's ndarray.sum(): 0.0 for an empty array
NpSum(s) == IF s = <<>> THEN Zero ELSE FAdd(Head(s), NpSum(Tail(s)))

\* square root of 1 / 1e-10, the tolerance of the weight check (1e10 itself
\* is beyond the integers of the model checker)
TolInvRoot == 100000

\* math.isclose(a, b, abs_tol=1e-10, rel_tol=1e-10): a == b, or both finite
\* and |a - b| <= max(rel_tol * max(|a|, |b|), abs_tol)
iscloseTol(a, b) ==
    IF a = b THEN ~IsNaN(a)
    ELSE IF ~IsFinite(a) \/ ~IsFinite(b) THEN FALSE
    ELSE LET diff == FAbs(FSub(a, b))
             big == FMax(FAbs(a), FAbs(b))
         IN  \/ ((big[1] * diff[2]) \div (diff[1] * big[2])) \div TolInvRoot
                    >= TolInvRoot
             \/ (diff[2] \div diff[1]) \div TolInvRoot >= TolInvRoot

\* a weight check that lets an empty dict through
WeightsSumToOneOrEmpty(rw) ==
    \/ rw = <<>>
    \/ iscloseTol(NpSum([i \in 1..Len(rw) |-> rw[i].weight]), Float(1))

\* lines 44-46: the values of the dict sum to 1 within the tolerance
WeightsSumToOne(rw) ==
    iscloseTol(NpSum([i \in 1..Len(rw) |-> rw[i].weight]), Float(1))

WeightsSumMsg == "Weights of input region_weights must sum to 1."

\* a melt that runs through the load rows first and the regions within each
RegionLoadsRowMajor(df, rw) ==
    [k \in 1..(Len(df) * Len(rw)) |->
        LET i == ((k - 1) \div Len(rw)) + 1
            r == ((k - 1) % Len(rw)) + 1
        IN  [year |-> df[i].year, region |-> rw[r].region,
             value |-> FMul(Float(df[i].value), rw[r].weight)]]

\* lines 52-62: one column of load * weight per region beside the year
\* column, melted column by column into rows of (year, region, value)
RegionLoads(df, rw) ==
    [k \in 1..(Len(df) * Len(rw)) |->
        LET r == ((k - 1) \div Len(df)) + 1
            i == ((k - 1) % Len(df)) + 1
        IN  [year |-> df[i].year, region |-> rw[r].region,
             value |-> FMul(Float(df[i].value), rw[r].weight)]]

InitApportion ==
    /\ DownscaleIdle
    /\ region_weights \in RegionWeightDicts
    /\ load_df \in ApportionLoadTables
    /\ load_df_supplied = load_df
    /\ in_geom_types = <<>>
    /\ pc = "start"
    /\ error = ""
    /\ result = <<>>

\* lines 44-64: the weight check, then the regional table
Apportion ==
    /\ pc = "start"
    /\ IF ~WeightsSumToOne(region_weights)
       THEN /\ Raise(WeightsSumMsg)
            /\ UNCHANGED result
       ELSE /\ result' = RegionLoads(load_df, region_weights)
            /\ pc' = "returned"
            /\ UNCHANGED error
    /\ UNCHANGED <<grid_df, baseline_year, load_df, n_nonzero, random_seed,
                   grid_year_df, year, grid_years, groups, load_projected_in_year,
                   simulations, commits, seeds_used, load_df_supplied,
                   region_weights, in_geom_types>>

NextApportion == Apportion

SpecApportion == InitApportion /\ [][NextApportion]_vars

(* ------------------------ get_geom_type_parquet ----------------------- *)
\* largest number of entries of the "geometry_types" list
MaxGeomTypes == 3

\* geometry type names a GeoParquet file may list
GeomTypeNames ==
    {"Point", "Polygon", "LineString", "MultiPolygon", "MultiLineString",
     "MultiPoint", "GeometryCollection"}

\* a table that also takes MultiPoint for a point
GEOMETRY_TYPES_WithMultiPoint ==
    [Point |-> "point", Polygon |-> "polygon", LineString |-> "line",
     MultiPolygon |-> "polygon", MultiLineString |-> "line",
     MultiPoint |-> "point"]

\* fileio.py lines 15-21
GEOMETRY_TYPES ==
    [Point |-> "point", Polygon |-> "polygon", LineString |-> "line",
     MultiPolygon |-> "polygon", MultiLineString |-> "line"]

None == "None"

\* GEOMETRY_TYPES.get(in_geom_type)
StdGeomType(t) ==
    IF t \in DOMAIN GEOMETRY_TYPES THEN GEOMETRY_TYPES[t] ELSE None

UnsupportedGeomMsg == "Unsupported geometry type"
MultipleGeomMsg == "Multiple geometry types encountered"
IndexErrorMsg == "IndexError: list index out of range"

InitGeom ==
    /\ DownscaleIdle
    /\ region_weights = <<>>
    /\ load_df = <<>>
    /\ load_df_supplied = <<>>
    /\ in_geom_types \in UNION {[1..n -> GeomTypeNames] : n \in 0..MaxGeomTypes}
    /\ pc = "start"
    /\ error = ""
    /\ result = <<>>

\* lines 104-119: every listed type is mapped (the first unsupported one
\* raises), more than one generic type raises, the first generic type is
\* returned (an empty list has none: IndexError)
GetGeomTypeParquet ==
    /\ pc = "start"
    /\ LET geom_types ==
               [i \in 1..Len(in_geom_types) |-> StdGeomType(in_geom_types[i])]
       IN  IF \E i \in 1..Len(geom_types) : geom_types[i] = None
           THEN /\ Raise(UnsupportedGeomMsg)
                /\ UNCHANGED result
           ELSE IF Cardinality({geom_types[i] : i \in 1..Len(geom_types)}) > 1
           THEN /\ Raise(MultipleGeomMsg)
                /\ UNCHANGED result
           ELSE IF geom_types = <<>>
           THEN /\ Raise(IndexErrorMsg)
                /\ UNCHANGED result
           ELSE /\ result' = geom_types[1]
                /\ pc' = "returned"
                /\ UNCHANGED error
    /\ UNCHANGED <<grid_df, baseline_year, load_df, n_nonzero, random_seed,
                   grid_year_df, year, grid_years, groups, load_projected_in_year,
                   simulations, commits, seeds_used, load_df_supplied,
                   region_weights, in_geom_types>>

NextGeom == GetGeomTypeParquet

SpecGeom == InitGeom /\ [][NextGeom]_vars

(* ------------------------- vocabulary of the claims ------------------- *)
MultipleRecordsMsg == "Multiple records for load projections year"

RECURSIVE FSum(_)
\* the arithmetic sum of a column: NaN if any entry is NaN
FSum(s) == IF s = <<>> THEN Zero ELSE FAdd(Head(s), FSum(Tail(s)))

Eligible == {s \in Sites : grid_df[s].priority > 0}

\* snapshot j + 1 is the one recorded by the j-th committed year; snapshot j
\* holds the rows that year started from
CapacityAt(j, s) == grid_years[j].rows[s].developable_capacity
TotalLoadAt(j, s) == grid_years[j].rows[s].total_load

\* allocation of site s in one trial; a site that is not among the deployed
\* rows counts as 0
TrialAllocation(deployed_df, s) ==
    IF \E i \in 1..Len(deployed_df) : deployed_df[i].idx = s
    THEN (CHOOSE r \in {deployed_df[i] : i \in 1..Len(deployed_df)} : r.idx = s).new_capacity
    ELSE Zero

DuplicatedYears ==
    {load_df[i].year : i \in 1..Len(load_df)} \cap
    {y \in Years : Cardinality({i \in 1..Len(load_df) : load_df[i].year = y}) > 1}

\* the j-th committed year had a positive target that the eligible sites'
\* capacity at the start of the year strictly exceeded
FeasibleYear(j) ==
    /\ FLess(Zero, commits[j].target)
    /\ FLess(commits[j].target,
             FSum(ColumnOf([s \in Eligible |-> CapacityAt(j, s)])))

\* C1: the amounts committed for a completed year sum to that year's target
C1_CalibrationLaw ==
    \A j \in 1..Len(commits) :
        FSum(ColumnOf(commits[j].new_load)) = commits[j].target

\* C2: a year whose eligible capacity is below its target is never committed
\* (the run aborts instead of giving the overflow to some site)
C2_InfeasibleYearAborts ==
    \A j \in 1..Len(commits) :
        ~FLess(FSum(ColumnOf([s \in Eligible |-> CapacityAt(j, s)])),
               commits[j].target)

\* C3: no row of the returned table has a developable capacity below zero
C3_CapacityNonNegative ==
    pc = "returned" =>
        \A i \in 1..Len(result) : FLeq(Zero, result[i].developable_capacity)

\* C4: from one snapshot to the next no site's developable capacity grows
C4_MonotonicDepletion ==
    \A j \in 1..(Len(grid_years) - 1) : \A s \in Sites :
        FLeq(CapacityAt(j + 1, s), CapacityAt(j, s))

\* C5: a site of priority 0 is drawn in no trial, is allocated 0 in every
\* year, and keeps its baseline load and input capacity in every snapshot
C5_ZeroPriorityExclusion ==
    \A s \in Sites : grid_df[s].priority = 0 =>
        /\ \A t \in 1..Len(simulations) : \A i \in 1..Len(simulations[t]) :
               simulations[t][i].idx # s
        /\ \A j \in 1..Len(commits) :
               /\ s \notin DOMAIN commits[j].means
               /\ commits[j].new_load[s] = Zero
        /\ \A j \in 1..Len(grid_years) :
               /\ TotalLoadAt(j, s) = Float(grid_df[s].baseline_load)
               /\ CapacityAt(j, s) = Float(grid_df[s].developable_capacity_mw)

C5_Witness ==
    /\ pc = "returned"
    /\ \E s \in Sites : grid_df[s].priority = 0 /\ grid_df[s].developable_capacity_mw > 0
    /\ \E j \in 1..Len(commits) : \E s \in Sites :
           FLess(Zero, commits[j].new_load[s])

\* C6: a year of target 0 commits 0 for every site and leaves every site's
\* capacity and total load as they were
C6_ZeroTargetYear ==
    \A j \in 1..Len(commits) : commits[j].target = Zero =>
        \A s \in Sites :
            /\ commits[j].new_load[s] = Zero
            /\ CapacityAt(j + 1, s) = CapacityAt(j, s)
            /\ TotalLoadAt(j + 1, s) = TotalLoadAt(j, s)

\* C7: the value rescaled for a site is the median of its allocation over all
\* trials of the year, a trial that did not deploy the site counting as 0
\* (stated for a year of positive target and sufficient capacity, where
\* neither C2 nor C6 plays a part)
C7_MedianOverAllTrials ==
    (/\ pc = "loop" /\ commits # <<>> /\ Len(simulations) = n_iters
     /\ FeasibleYear(Len(commits))) =>
        \A s \in DOMAIN commits[Len(commits)].means :
            commits[Len(commits)].means[s] =
                Median([t \in 1..n_iters |-> TrialAllocation(simulations[t], s)])

\* C8: the returned row of (site, target year) carries the year's committed
\* allocation as new load and the cumulative load as total load (stated for
\* runs whose years all have a positive target and sufficient capacity, where
\* neither C2 nor C6 plays a part)
C8_OutputCarriesIncrement ==
    (pc = "returned" /\ \A j \in 1..Len(commits) : FeasibleYear(j)) =>
        \A j \in 1..Len(commits) : \A s \in Sites :
            LET row == result[j * MaxSites + s]
            IN  /\ row.idx = s /\ row.year = commits[j].year
                /\ row.new_load = commits[j].new_load[s]
                /\ row.total_load =
                       FAdd(Float(grid_df[s].baseline_load),
                            FSum([i \in 1..j |-> commits[i].new_load[s]]))

\* C9: after j committed years the total loads sum to the baseline loads plus
\* the j targets, the capacities to the input capacities minus the j targets
C9_SumsFollowTargets ==
    \A j \in 0..Len(commits) :
        LET targets == FSum([i \in 1..j |-> commits[i].target])
            base == FSum([s \in Sites |-> Float(grid_df[s].baseline_load)])
            caps == FSum([s \in Sites |-> Float(grid_df[s].developable_capacity_mw)])
        IN  (Len(grid_years) > j) =>
              /\ FSum([s \in Sites |-> TotalLoadAt(j + 1, s)]) = FAdd(base, targets)
              /\ FSum([s \in Sites |-> CapacityAt(j + 1, s)]) = FSub(caps, targets)

C11_DuplicateRaisedBeforeWork ==
    DuplicatedYears # {} =>
        /\ seeds_used = <<>> /\ simulations = <<>>
        /\ commits = <<>> /\ Len(grid_years) <= 1

\* C12: a run that hit a fatal condition stays raised and hands no snapshot
\* to the caller, whatever years it had completed before
C12_NoPartialOutput ==
    /\ error # "" <=> pc = "raised"
    /\ pc = "raised" => result = <<>>
    /\ result # <<>> => pc = "returned"

C12_Witness ==
    /\ pc = "raised"
    /\ Len(grid_years) >= 2
    /\ Len(commits) >= 1
    /\ result = <<>>

\* C14: the k-th trial of the run (0-based) uses seed k, so that trial i of
\* the j-th processed year uses seed j * n_iters + i and no seed is used twice
C14_SeedsNeverReused ==
    /\ \A k \in 1..Len(seeds_used) : seeds_used[k] = k - 1
    /\ \A k1, k2 \in 1..Len(seeds_used) :
           k1 # k2 => seeds_used[k1] # seeds_used[k2]
    /\ random_seed = Len(seeds_used)
    /\ pc = "trials" =>
           random_seed = Len(commits) * n_iters + Len(simulations)

C14_Witness ==
    /\ pc = "trials"
    /\ Len(commits) = 1
    /\ Len(simulations) = 1
    /\ seeds_used[Len(seeds_used)] = n_iters

\* C15: from the first step on, the first snapshot is labelled baseline_year
\* and holds every site's input baseline load and input capacity; it is
\* there before the first trial and the first commit
C15_BaselineSnapshot ==
    /\ pc = "start" => grid_years = <<>> /\ seeds_used = <<>> /\ commits = <<>>
    /\ pc # "start" =>
          /\ Len(grid_years) = Len(commits) + 1
          /\ grid_years[1].year = baseline_year
          /\ \A s \in Sites :
                /\ TotalLoadAt(1, s) = Float(grid_df[s].baseline_load)
                /\ CapacityAt(1, s) = Float(grid_df[s].developable_capacity_mw)
    /\ pc = "returned" =>
          \A s \in Sites :
              /\ result[s].idx = s /\ result[s].year = baseline_year
              /\ result[s].total_load = Float(grid_df[s].baseline_load)
              /\ result[s].developable_capacity =
                     Float(grid_df[s].developable_capacity_mw)

C15_Witness ==
    /\ pc = "returned"
    /\ \E s \in Sites :
          /\ grid_df[s].baseline_load > 0
          /\ grid_df[s].developable_capacity_mw > 0
          /\ result[Len(commits) * MaxSites + s].developable_capacity
                 # result[s].developable_capacity

\* C16 as stated: the returned table holds one row per site for the baseline
\* year and for each target year, and no (site, year) key twice
C16_UniqueSiteYearKeys ==
    pc = "returned" =>
        /\ Len(result) = (1 + Len(commits)) * MaxSites
        /\ \A i, k \in 1..Len(result) :
               (result[i].idx = result[k].idx /\ result[i].year = result[k].year)
                   => i = k

\* C17 (for load tables in every row order, the row's supplied position kept
\* in its index label): years are committed in strictly ascending order;
\* when a year is committed every smaller supplied year
\* has been, and the capacities a year starts from are the input capacities
\* less what the earlier (smaller) years committed; a year's target is the
\* value of its supplied row
C17_AscendingYears ==
    /\ \A j \in 1..(Len(commits) - 1) : commits[j].year < commits[j + 1].year
    /\ \A j \in 1..Len(commits) :
           {commits[i].year : i \in 1..(j - 1)} =
               {load_df[i].year : i \in 1..Len(load_df)}
                   \cap {y \in Years : y < commits[j].year}
    /\ \A j \in 1..Len(commits) :
           \E i \in 1..Len(load_df) :
               /\ load_df[i].year = commits[j].year
               /\ commits[j].target = Float(load_df[i].value)
    /\ \A j \in 1..Len(grid_years) : \A s \in Sites :
           /\ grid_years[j].year = IF j = 1 THEN baseline_year ELSE commits[j - 1].year
           /\ CapacityAt(j, s) =
                  FSub(Float(grid_df[s].developable_capacity_mw),
                       FSum([i \in 1..(j - 1) |-> commits[i].new_load[s]]))

C17_Witness ==
    /\ Len(commits) = 2
    /\ Len(load_df) = 2
    /\ load_df[1].idx = 2 /\ load_df[2].idx = 1
    /\ commits[1].year = load_df[1].year /\ commits[2].year = load_df[2].year
    /\ \E s \in Sites : FLess(Zero, commits[1].new_load[s])

\* C18: a dict whose values do not sum to 1 (the empty dict among them) ends
\* in the weight error and no table is returned
C18_BadWeightsRaise ==
    LET total == NpSum([i \in 1..Len(region_weights) |-> region_weights[i].weight])
    IN  (pc # "start" /\ total # Float(1)) =>
            /\ pc = "raised"
            /\ error = WeightsSumMsg
            /\ result = <<>>

C18_Witness ==
    /\ pc = "raised"
    /\ error = WeightsSumMsg
    /\ region_weights = <<>>
    /\ load_df # <<>>

C20_GeomType ==
    pc # "start" =>
        LET listed == {in_geom_types[i] : i \in 1..Len(in_geom_types)}
            points == {"Point"}
            lines == {"LineString", "MultiLineString"}
            polygons == {"Polygon", "MultiPolygon"}
            supported == points \cup lines \cup polygons
            generic == {g \in {"point", "line", "polygon"} :
                           \/ g = "point" /\ listed \cap points # {}
                           \/ g = "line" /\ listed \cap lines # {}
                           \/ g = "polygon" /\ listed \cap polygons # {}}
        IN  /\ (listed # {} /\ listed \subseteq points) =>
                   (pc = "returned" /\ result = "point")
            /\ (listed # {} /\ listed \subseteq lines) =>
                   (pc = "returned" /\ result = "line")
            /\ (listed # {} /\ listed \subseteq polygons) =>
                   (pc = "returned" /\ result = "polygon")
            /\ ~(listed \subseteq supported) =>
                   (pc = "raised" /\ error = UnsupportedGeomMsg)
            /\ (listed \subseteq supported /\ Cardinality(generic) > 1) =>
                   (pc = "raised" /\ error = MultipleGeomMsg)

C20_Witness ==
    /\ pc = "returned"
    /\ result = "line"
    /\ \E i, k \in 1..Len(in_geom_types) :
           in_geom_types[i] = "LineString" /\ in_geom_types[k] = "MultiLineString"

\* the allocations, in sampled order, of the t-th trial of the running year
Allocations(t) == NewCapacities(simulations[t])

\* the capacity the trials of the running year read for site s
YearStartCapacity(s) == grid_year_df[s].developable_capacity

\* the capacity of the first i rows of a deployed_df
PrefixCapacity(deployed_df, i) ==
    FSum([m \in 1..i |-> YearStartCapacity(deployed_df[m].idx)])

EligibleCapacity == FSum(ColumnOf([s \in Eligible |-> YearStartCapacity(s)]))

\* C21 as stated: the allocations of every trial kept for the running year
\* add up to the year's target
C21_TrialSumsToTarget ==
    pc = "trials" =>
        \A t \in 1..Len(simulations) : FSum(Allocations(t)) = load_projected_in_year

\* C22: in a trial where the cumulative capacity strictly exceeds the target
\* at some position, the deployed rows end at the first such position k; the
\* rows before k get their full capacity, row k gets the target less the
\* capacity of the rows before it, and no row after k is among the deployed
C22_GreedyFill ==
    pc = "trials" =>
        \A t \in 1..Len(simulations) :
            LET d == simulations[t]
                k == Len(d)
            IN  FLess(load_projected_in_year, PrefixCapacity(d, k)) =>
                  /\ \A i \in 1..(k - 1) :
                        /\ ~FLess(load_projected_in_year, PrefixCapacity(d, i))
                        /\ d[i].new_capacity = YearStartCapacity(d[i].idx)
                  /\ d[k].new_capacity =
                        FSub(load_projected_in_year, PrefixCapacity(d, k - 1))
                  /\ \A i, m \in 1..k : i # m => d[i].idx # d[m].idx

C22_Witness ==
    /\ pc = "trials"
    /\ \E t \in 1..Len(simulations) :
          /\ Len(simulations[t]) = 2
          /\ FLess(load_projected_in_year, PrefixCapacity(simulations[t], 2))
          /\ FLess(Zero, simulations[t][1].new_capacity)
          /\ FLess(Zero, simulations[t][2].new_capacity)
          /\ FLess(simulations[t][2].new_capacity,
                   YearStartCapacity(simulations[t][2].idx))

\* C23 as stated: in a year whose positive target equals the total capacity
\* of the eligible sites (none of them negative), no trial allocates a site
\* more than its capacity
C23_ExactCapacityYear ==
    (/\ pc = "trials"
     /\ FLess(Zero, load_projected_in_year)
     /\ \A s \in Eligible : FLeq(Zero, YearStartCapacity(s))
     /\ EligibleCapacity = load_projected_in_year) =>
        \A t \in 1..Len(simulations) : \A i \in 1..Len(simulations[t]) :
            FLeq(simulations[t][i].new_capacity,
                 YearStartCapacity(simulations[t][i].idx))

\* C24 as stated: with a site of negative priority the run never returns,
\* completes no trial and commits nothing; the site is not counted eligible
C24_NegativePriorityFails ==
    (\E s \in Sites : grid_df[s].priority < 0) =>
        /\ pc # "returned" /\ result = <<>>
        /\ seeds_used = <<>> /\ simulations = <<>> /\ commits = <<>>
        /\ pc # "start" => n_nonzero = Cardinality(Eligible)

\* C25 as stated: a load table of unique years whose rows were not supplied
\* in ascending year order (seen in the index labels the sorted rows carry)
\* never returns
C25_UnsortedTableAborts ==
    (/\ DuplicatedYears = {}
     /\ \E i \in 1..(Len(load_df) - 1) : load_df[i].idx > load_df[i + 1].idx) =>
        pc # "returned" /\ result = <<>>

\* C26: while the trials of a year run, and until the next commit, every
\* site's developable capacity and total load are the ones of the latest
\* snapshot (the baseline's or the last commit's): one change per year
C26_TrialsLeaveGridAlone ==
    pc \in {"loop", "trials", "raised", "returned"} =>
        /\ Len(grid_years) = Len(commits) + 1
        /\ \A s \in Sites :
              /\ grid_year_df[s].developable_capacity = CapacityAt(Len(grid_years), s)
              /\ grid_year_df[s].total_load = TotalLoadAt(Len(grid_years), s)

C26_Witness ==
    /\ pc = "trials"
    /\ Len(commits) = 1
    /\ Len(simulations) = n_iters
    /\ \E t \in 1..Len(simulations) : \E i \in 1..Len(simulations[t]) :
          FLess(Zero, simulations[t][i].new_capacity)
    /\ \E s \in Sites : CapacityAt(2, s) # CapacityAt(1, s)

\* C27 as stated: n is the number of sites of priority > 0; the rows a trial
\* deploys are distinct sites of priority > 0, at most n of them; a site
\* whose capacity is used up is allocated 0 in the trial
C27_DepletedSiteGetsNothing ==
    /\ pc # "start" => n_nonzero = Cardinality(Eligible)
    /\ pc = "trials" =>
          \A t \in 1..Len(simulations) :
              LET d == simulations[t]
              IN  /\ Len(d) <= n_nonzero
                  /\ \A i \in 1..Len(d) :
                        /\ d[i].idx \in Eligible
                        /\ \A m \in 1..Len(d) : i # m => d[i].idx # d[m].idx
                        /\ YearStartCapacity(d[i].idx) = Zero
                               => d[i].new_capacity = Zero

\* C28 as stated: in every snapshot a site's total load and developable
\* capacity add up to its baseline load plus its input capacity
C28_LoadPlusCapacityConstant ==
    \A j \in 1..Len(grid_years) : \A s \in Sites :
        FAdd(TotalLoadAt(j, s), CapacityAt(j, s)) =
            Float(grid_df[s].baseline_load + grid_df[s].developable_capacity_mw)

\* C29: in a year of positive target that the eligible sites' capacities,
\* none of them negative, strictly exceed, what is committed for a site is
\* at least 0 and at most the capacity the site had at the start of the year
C29_CalibratedWithinCapacity ==
    \A j \in 1..Len(commits) :
        (FeasibleYear(j) /\ \A s \in Eligible : FLeq(Zero, CapacityAt(j, s))) =>
            \A s \in Sites :
                /\ FLeq(Zero, commits[j].new_load[s])
                /\ FLeq(commits[j].new_load[s], CapacityAt(j, s))

C29_Witness ==
    /\ Len(commits) >= 1
    /\ FeasibleYear(1)
    /\ Cardinality(DOMAIN commits[1].means) = 2
    /\ \E s \in Sites :
          /\ commits[1].means[s] # commits[1].new_load[s]
          /\ FLess(Zero, commits[1].new_load[s])
          /\ FLess(commits[1].new_load[s], CapacityAt(1, s))

=============================================================================
